---- MODULE Spec2Model ----
(***************************************************************************)
(* A model of anagrem, a Gearman client and worker (anagrem/__init__.py).  *)
(*                                                                         *)
(* The module holds two specifications over one set of variables:          *)
(*   CodecSpec  the packet codec alone: write_request and read_response    *)
(*              applied to packets drawn from bounded sets;                *)
(*   Spec       one Client object on which connect, submit_job,            *)
(*              get_status or work is called, with the servers as the      *)
(*              environment.                                               *)
(* Bytes are the integers 0..255 and a byte string is a sequence of them.  *)
(***************************************************************************)
EXTENDS Integers, Sequences, FiniteSets, TLC

VARIABLES
    \* ---- the codec harness (CodecSpec) ----
    cphase,         \* "input", "wire", "decoded"
    pkt,            \* the packet under test: [ptype, args, via, head]
    wire,           \* the bytes on the stream
    delivered,      \* how many bytes of the stream the transport had delivered
    result,         \* what read_response returned or raised
    \* ---- the client object and its environment (Spec) ----
    pc,             \* position of the caller in the client's code
    op,             \* the method that was called
    level,          \* submit_job's level argument
    shirk,          \* work's shirk argument
    exc,            \* the exception that left the method ("none" when none)
    ret,            \* the value the method returned
    reachable,      \* the servers that accept a connection (environment)
    attempts,       \* the addresses create_connection was called on, in order
    conn,           \* request's short-lived connection (0 when none)
    server_sockets, \* work's active set
    read_ready,     \* select's first result, what is left of it to iterate
    errored,        \* select's third result
    isopen,         \* the sockets that are open (not yet closed)
    inbox,          \* per socket: bytes the server wrote, not yet consumed
    eof,            \* per socket: the server has closed its end
    sockerr,        \* per socket: the socket has an error condition pending
    wrote,          \* per socket: the write_request calls of the latest step
    got,            \* the packet the latest step read, and what came of it
    nopen,          \* connections the current call has opened
    nread,          \* read_response calls the current call has made
    polite,         \* the servers keep to the worker protocol and their
                    \* connections stay intact (environment)
    peer            \* per socket: a polite server's view of the connection

codecVars == <<cphase, pkt, wire, delivered, result>>
clientVars == <<pc, op, level, shirk, exc, ret, reachable, attempts, conn,
                server_sockets, read_ready, errored, isopen, inbox, eof,
                sockerr, wrote, got, nopen, nread, polite, peer>>
vars == <<cphase, pkt, wire, delivered, result,
          pc, op, level, shirk, exc, ret, reachable, attempts, conn,
          server_sockets, read_ready, errored, isopen, inbox, eof,
          sockerr, wrote, got, nopen, nread, polite, peer>>

----------------------------------------------------------------------------
(* Bounds of the model *)

\* number of configured servers (settings.GEARMAN_SERVERS)
NumServers == 2
\* longest last argument of a packet drawn for the codec
MaxArgLen == 2
\* unread bytes up to which a server still writes another packet
MaxBacklog == 0

----------------------------------------------------------------------------
(* Packet catalog: ClientType.__new__ *)

CAN_DO == 1
CANT_DO == 2
RESET_ABILITIES == 3
PRE_SLEEP == 4
NOOP == 6
SUBMIT_JOB == 7
JOB_CREATED == 8
GRAB_JOB == 9
NO_JOB == 10
JOB_ASSIGN == 11
WORK_STATUS == 12
WORK_COMPLETE == 13
WORK_FAIL == 14
GET_STATUS == 15
ECHO_REQ == 16
ECHO_RES == 17
SUBMIT_JOB_BG == 18
ERROR == 19
STATUS_RES == 20
SUBMIT_JOB_HIGH == 21
SET_CLIENT_ID == 22
CAN_DO_TIMEOUT == 23
ALL_YOURS == 24
WORK_EXCEPTION == 25
OPTION_REQ == 26
OPTION_RES == 27
WORK_DATA == 28
WORK_WARNING == 29
GRAB_JOB_UNIQ == 30
JOB_ASSIGN_UNIQ == 31
SUBMIT_JOB_HIGH_BG == 32
SUBMIT_JOB_LOW == 33
SUBMIT_JOB_LOW_BG == 34
SUBMIT_JOB_SCHED == 35
SUBMIT_JOB_EPOCH == 36

\* the Args column of packet_type_doc, by type code; row 5 "(unused)" does
\* not match the regular expression and gets no entry
ArgsColumn ==
    <<1, 1, 0, 0, -1, 0, 3, 1, 0, 0, 3, 3, 2, 1, 1, 1, 1, 3, 2, 5, 3, 1, 2, 0,
      2, 1, 1, 2, 2, 0, 4, 3, 3, 3, 8, 4>>

packet_name_for_type == {t \in 1..Len(ArgsColumn) : ArgsColumn[t] >= 0}

num_args_for_packet_type == [t \in packet_name_for_type |-> ArgsColumn[t]]

----------------------------------------------------------------------------
(* Byte strings and struct.pack / struct.unpack *)

Byte == 0..255

\* b'REQ' and b'RES'
REQ == <<82, 69, 81>>
RES == <<82, 69, 83>>

Min(a, b) == IF a < b THEN a ELSE b

\* struct's '!I': a 4-byte big-endian unsigned integer
PackI(n) ==
    <<(n \div 16777216) % 256, (n \div 65536) % 256, (n \div 256) % 256, n % 256>>

UnpackI(b) == ((b[1] * 256 + b[2]) * 256 + b[3]) * 256 + b[4]

\* b'\x00'.join(args)
RECURSIVE Join(_)
Join(args) ==
    IF Len(args) = 0 THEN <<>>
    ELSE IF Len(args) = 1 THEN args[1]
    ELSE args[1] \o <<0>> \o Join(Tail(args))

\* the index of the first b'\x00' of data, 0 when there is none
FirstNul(data) ==
    LET nuls == {i \in 1..Len(data) : data[i] = 0}
    IN  IF nuls = {} THEN 0
        ELSE CHOOSE i \in nuls : \A j \in nuls : i <= j

\* bytes.split(b'\x00', maxsplit): at most maxsplit splits, from the left
RECURSIVE Split(_, _)
Split(data, maxsplit) ==
    LET k == FirstNul(data)
    IN  IF maxsplit = 0 \/ k = 0 THEN <<data>>
        ELSE <<SubSeq(data, 1, k - 1)>>
             \o Split(SubSeq(data, k + 1, Len(data)), maxsplit - 1)

\* struct.pack('!B3sII', 0, magic, packet_type, length)
Header(magic, packet_type, length) ==
    <<0>> \o magic \o PackI(packet_type) \o PackI(length)

\* the bytes write_request sends for one packet: header, then data
write_request(packet_type, args) ==
    Header(REQ, packet_type, Len(Join(args))) \o Join(args)

\* the type code in the header of a written packet
TypeOf(packet) == UnpackI(SubSeq(packet, 5, 8))

\* the body of a written packet
BodyOf(packet) == SubSeq(packet, 13, Len(packet))

(***************************************************************************)
(* read_response on a socket whose stream holds the bytes `stream`, of     *)
(* which the first `arrived` are in the receive buffer during the call;    *)
(* atEof says that the peer has closed its end behind them.                *)
(* recv(n) returns at most n of the buffered bytes; with none buffered it  *)
(* returns b'' at end of stream and otherwise has nothing to return: the   *)
(* outcome "BlockingIOError" is what a non-blocking socket raises there (a *)
(* blocking socket waits, so its callers pass an `arrived` that avoids     *)
(* it).  The header loop never ends when recv keeps returning b'': the     *)
(* outcome "hang".  The body is read by ONE recv(len_args).                *)
(* The record gives the outcome, the packet and the bytes consumed.        *)
(***************************************************************************)
Outcome(e, t, a, n) == [exc |-> e, ptype |-> t, args |-> a, consumed |-> n]

ReadBody(stream, arrived, atEof, response_type, len_args) ==
    LET n == Min(len_args, arrived - 12)
        data == SubSeq(stream, 13, 12 + n)
    IN  IF n = 0 /\ ~atEof
        THEN Outcome("BlockingIOError", response_type, <<>>, 12)
        ELSE Outcome("none", response_type,
                     Split(data, num_args_for_packet_type[response_type]),
                     12 + n)

\* read_response as it would be without the check of the magic bytes
read_response_unchecked_magic(stream, arrived, atEof) ==
    IF arrived < 12
    THEN Outcome(IF atEof THEN "hang" ELSE "BlockingIOError", 0, <<>>, arrived)
    ELSE LET response_type == UnpackI(SubSeq(stream, 5, 8))
             len_args == UnpackI(SubSeq(stream, 9, 12))
         IN  IF len_args = 0
             THEN Outcome("none", response_type, <<>>, 12)
             ELSE IF response_type \notin DOMAIN num_args_for_packet_type
             THEN Outcome("GearmanError", response_type, <<>>, 12)
             ELSE ReadBody(stream, arrived, atEof, response_type, len_args)

read_response(stream, arrived, atEof) ==
    IF arrived < 12
    THEN Outcome(IF atEof THEN "hang" ELSE "BlockingIOError", 0, <<>>, arrived)
    ELSE LET response_head == SubSeq(stream, 1, 4)
             response_type == UnpackI(SubSeq(stream, 5, 8))
             len_args == UnpackI(SubSeq(stream, 9, 12))
         IN  IF response_head # <<0>> \o RES
             THEN Outcome("GearmanError", response_type, <<>>, 12)
             ELSE IF len_args = 0
             THEN Outcome("none", response_type, <<>>, 12)
             ELSE IF response_type \notin DOMAIN num_args_for_packet_type
             THEN Outcome("GearmanError", response_type, <<>>, 12)
             ELSE ReadBody(stream, arrived, atEof, response_type, len_args)

----------------------------------------------------------------------------
(* The codec harness: packets drawn from bounded sets, encoded by          *)
(* write_request or by a peer, then decoded by read_response               *)

\* arguments without a separator byte
PlainArgs == {<<>>, <<97>>}

RECURSIVE BytesUpTo(_)
BytesUpTo(n) ==
    IF n = 0 THEN {<<>>}
    ELSE BytesUpTo(n - 1)
         \cup {b \o <<x>> : b \in {c \in BytesUpTo(n - 1) : Len(c) = n - 1},
                            x \in {0, 97}}

\* last arguments: every byte string over {0x00, 'a'} up to MaxArgLen bytes
LastArgs == BytesUpTo(MaxArgLen)

\* the argument lists of length n whose separators are all in the last one
ArgLists(n) ==
    IF n = 0 THEN {<<>>}
    ELSE {front \o <<last>> : front \in [1..(n - 1) -> PlainArgs],
                              last \in LastArgs}

\* type codes that are not in the catalog
UnknownTypes == {0, 5, 37}

\* what a stream may start with: the responder magic, the requester magic,
\* and a head that is neither
Heads == {<<0>> \o RES, <<0>> \o REQ, <<1>> \o RES}

\* a packet as a peer frames it: 4-byte head, type, body length, body
PeerPacket(head, packet_type, args) ==
    head \o PackI(packet_type) \o PackI(Len(Join(args))) \o Join(args)

Unsent(t, a) == [ptype |-> t, args |-> a, via |-> "none", head |-> <<>>]

CodecPackets ==
    UNION {{Unsent(t, a) : a \in ArgLists(num_args_for_packet_type[t])} :
              t \in packet_name_for_type}
    \cup
    {Unsent(t, a) : t \in UnknownTypes, a \in ArgLists(0) \cup ArgLists(1)}

NoOutcome == Outcome("unset", 0, <<>>, 0)

\* no packet read by the latest step
NoGot ==
    [sock |-> 0, exc |-> "unset", ptype |-> 0, args |-> <<>>, ran |-> "no"]

\* a polite server's view of a connection on which nothing was exchanged:
\* whether the worker sleeps (PRE_SLEEP was its last word and no NOOP woke
\* it), the GRAB_JOBs not yet answered, the handles of the jobs assigned
\* and not yet reported, whether a GRAB_JOB came in while a job was
\* unreported, the task names announced by CAN_DO and not withdrawn by
\* CANT_DO since, and the type of the last packet the worker sent
NoView ==
    [asleep |-> FALSE, grabs |-> 0, jobs |-> <<>>, early |-> FALSE,
     can |-> {}, last |-> 0]

\* the client object untouched: what CodecSpec keeps the client's state at
ClientIdle ==
    /\ pc = "idle" /\ op = "none" /\ level = "none" /\ shirk = FALSE
    /\ exc = "none" /\ ret = <<>> /\ reachable = {} /\ attempts = <<>>
    /\ conn = 0 /\ server_sockets = {} /\ read_ready = {} /\ errored = {}
    /\ isopen = {}
    /\ inbox = [s \in 1..NumServers |-> <<>>]
    /\ eof = [s \in 1..NumServers |-> FALSE]
    /\ sockerr = [s \in 1..NumServers |-> FALSE]
    /\ wrote = [s \in 1..NumServers |-> <<>>]
    /\ got = NoGot /\ nopen = 0 /\ nread = 0
    /\ polite = FALSE
    /\ peer = [s \in 1..NumServers |-> NoView]

CodecIdle ==
    /\ cphase = "off" /\ pkt = Unsent(0, <<>>)
    /\ wire = <<>> /\ delivered = 0 /\ result = NoOutcome

CodecInit ==
    /\ cphase = "input"
    /\ pkt \in CodecPackets
    /\ wire = <<>> /\ delivered = 0 /\ result = NoOutcome
    /\ ClientIdle

\* the client encodes the packet: write_request's two sendall calls
Encode ==
    /\ cphase = "input"
    /\ wire' = write_request(pkt.ptype, pkt.args)
    /\ pkt' = [pkt EXCEPT !.via = "write_request", !.head = <<0>> \o REQ]
    /\ cphase' = "wire"
    /\ UNCHANGED <<delivered, result>>
    /\ UNCHANGED clientVars

\* a peer frames the same type and arguments under one of the heads
Respond(head) ==
    /\ cphase = "input"
    /\ wire' = PeerPacket(head, pkt.ptype, pkt.args)
    /\ pkt' = [pkt EXCEPT !.via = "peer", !.head = head]
    /\ cphase' = "wire"
    /\ UNCHANGED <<delivered, result>>
    /\ UNCHANGED clientVars

\* the numbers of bytes the transport may have delivered when a blocking
\* read_response reads a stream: the header, and one byte or more of a body
Arrivals(stream) ==
    {k \in 12..Len(stream) : Len(stream) > 12 => k > 12}

\* read_response on the stream, the transport having delivered `arrived` bytes
Decode(arrived) ==
    /\ cphase = "wire"
    /\ result' = read_response(wire, arrived, FALSE)
    /\ delivered' = arrived
    /\ wire' = SubSeq(wire, result'.consumed + 1, Len(wire))
    /\ cphase' = "decoded"
    /\ UNCHANGED pkt
    /\ UNCHANGED clientVars

CodecNext ==
    \/ Encode
    \/ \E head \in Heads : Respond(head)
    \/ \E arrived \in Arrivals(wire) : Decode(arrived)

CodecSpec == CodecInit /\ [][CodecNext]_vars

----------------------------------------------------------------------------
(* The client object: configuration, handler table, servers' packets *)

\* self.servers: the configured addresses, in list order
servers == [i \in 1..NumServers |-> i]

Servers == 1..NumServers

\* the task names client.task registered (models.py), in registration
\* order, each abbreviated to its first letter: b'm', b'w', b'f'
moose == <<109>>
waitmoose == <<119>>
failmoose == <<102>>

tasks == <<moose, waitmoose, failmoose>>

Registered == {tasks[i] : i \in 1..Len(tasks)}

\* a task name no handler is registered for: b'g'
ghost == <<103>>

\* b'{}', the JSON document of an empty keyword dictionary
EmptyKwargs == <<123, 125>>

\* json.dumps({'moose': True}).encode('utf8') == b'{"moose": true}'
MooseRet ==
    <<123, 34, 109, 111, 111, 115, 101, 34, 58, 32, 116, 114, 117, 101, 125>>

\* str(exc).encode('utf8') of an exception that has a message,
\* abbreviated to b'e'; NotImplementedError() has the message b''
ErrText == <<101>>

(***************************************************************************)
(* Lines 311-313 of work: json.loads, the call of the handler, json.dumps.  *)
(* Of the byte strings of this model only b'{}' is a JSON document; it     *)
(* holds no keyword.  moose returns, failmoose raises NotImplementedError, *)
(* waitmoose raises NameError (models.py never imports time).              *)
(***************************************************************************)
RunTask(funcname, data) ==
    IF data # EmptyKwargs
    THEN [outcome |-> "raised", data |-> ErrText]
    ELSE IF funcname = moose
    THEN [outcome |-> "returned", data |-> MooseRet]
    ELSE IF funcname = failmoose
    THEN [outcome |-> "raised", data |-> <<>>]
    ELSE [outcome |-> "raised", data |-> ErrText]

\* a call of write_request on a socket: the packet type and the arguments
\* (write_request above gives the bytes it sends)
Call(packet_type, args) == [ptype |-> packet_type, args |-> args]

\* what a step of work does besides reading: the exception that escapes
\* ("none" when none), the packets written, whether the socket is closed
\* and dropped, and how the handler ended ("no" when none ran)
Step(e, out, drop, ran) == [exc |-> e, out |-> out, drop |-> drop, ran |-> ran]

\* lines 267-270 and 297-298: CAN_DO for every registered task
CanDoAll == [i \in 1..Len(tasks) |-> Call(CAN_DO, <<tasks[i]>>)]

\* lines 267-270: what a session writes on each new socket
Announce == CanDoAll \o <<Call(PRE_SLEEP, <<>>)>>

\* the answer to NOOP as it would be if the worker grabbed twice
OnNoop_grab_twice ==
    Step("none", <<Call(GRAB_JOB, <<>>), Call(GRAB_JOB, <<>>)>>, FALSE, "no")

\* lines 288-292
OnNoop == Step("none", <<Call(GRAB_JOB, <<>>)>>, FALSE, "no")

\* the answer to NO_JOB as it would be if the worker grabbed again
\* instead of going to sleep
OnNoJob_grab_again(sh) ==
    Step("none",
         (IF sh THEN CanDoAll ELSE <<>>) \o <<Call(GRAB_JOB, <<>>)>>,
         FALSE, "no")

\* the answer to NO_JOB as it would be if shirk mode announced nothing
\* again
OnNoJob_no_restore(sh) == Step("none", <<Call(PRE_SLEEP, <<>>)>>, FALSE, "no")

\* lines 294-302
OnNoJob(sh) ==
    Step("none",
         (IF sh THEN CanDoAll ELSE <<>>) \o <<Call(PRE_SLEEP, <<>>)>>,
         FALSE, "no")

\* the report as it would be if a failure sent WORK_EXCEPTION alone
Report_exception_only(handle, r) ==
    IF r.outcome = "raised"
    THEN <<Call(WORK_EXCEPTION, <<handle, r.data>>)>>
    ELSE <<Call(WORK_COMPLETE, <<handle, r.data>>)>>

\* lines 310-322: the report of a job's outcome
Report(handle, r) ==
    IF r.outcome = "raised"
    THEN <<Call(WORK_EXCEPTION, <<handle, r.data>>),
           Call(WORK_FAIL, <<handle>>)>>
    ELSE <<Call(WORK_COMPLETE, <<handle, r.data>>)>>

\* the end of a job as it would be if shirk mode withdrew nothing
AfterJob_no_withdrawal(funcname, sh) == <<Call(GRAB_JOB, <<>>)>>

\* lines 324-328: the capability withdrawal of shirk mode, then the grab
AfterJob(funcname, sh) ==
    (IF sh THEN <<Call(CANT_DO, <<funcname>>)>> ELSE <<>>)
    \o <<Call(GRAB_JOB, <<>>)>>

\* lines 304-329
OnJobAssign(args, sh) ==
    IF Len(args) # 3
    THEN Step("ValueError", <<>>, FALSE, "no")
    ELSE LET handle == args[1]
             funcname == args[2]
             data == args[3]
         IN  IF \E i \in 1..Len(funcname) : funcname[i] > 127
             THEN Step("UnicodeDecodeError", <<>>, FALSE, "no")
             ELSE IF funcname \notin Registered
             THEN Step("KeyError", <<>>, FALSE, "no")
             ELSE Step("none",
                       Report(handle, RunTask(funcname, data))
                           \o AfterJob(funcname, sh),
                       FALSE,
                       RunTask(funcname, data).outcome)

\* lines 331-338
OnOther(packet_type, args) ==
    IF packet_type = ERROR /\ Len(args) # 2
    THEN Step("ValueError", <<>>, FALSE, "no")
    ELSE Step("none", <<>>, TRUE, "no")

\* lines 286-338: the body of the loop over read_ready, after read_response
\* returned (packet_type, args)
Dispatched(packet_type, args, sh) ==
    IF packet_type = NOOP THEN OnNoop
    ELSE IF packet_type = NO_JOB THEN OnNoJob(sh)
    ELSE IF packet_type = JOB_ASSIGN THEN OnJobAssign(args, sh)
    ELSE OnOther(packet_type, args)

\* connect: the addresses tried, in order, up to the first that accepts
RECURSIVE TryFrom(_, _)
TryFrom(i, up) ==
    IF i > Len(servers) THEN <<>>
    ELSE IF servers[i] \in up THEN <<servers[i]>>
    ELSE <<servers[i]>> \o TryFrom(i + 1, up)

\* connect as it would be if it went on to the last address that accepts
Connected_last(up) ==
    IF up = {}
    THEN [exc |-> "GearmanError", sock |-> 0, tried |-> servers]
    ELSE [exc |-> "none",
          sock |-> CHOOSE s \in up : \A t \in up : t <= s,
          tried |-> servers]

\* connect's result: the socket of the last address tried when that one
\* accepted, and otherwise the GearmanError of line 163
Connected(up) ==
    LET tried == TryFrom(1, up)
    IN  IF Len(tried) > 0 /\ tried[Len(tried)] \in up
        THEN [exc |-> "none", sock |-> tried[Len(tried)], tried |-> tried]
        ELSE [exc |-> "GearmanError", sock |-> 0, tried |-> tried]

\* the job handle server s hands out: b'H1', b'H2', ...
Handle(s) == <<72, 48 + s>>

\* the packets server s may write to a connection
ServerPackets ==
  [s \in Servers |->
    { PeerPacket(<<0>> \o RES, NOOP, <<>>),
      PeerPacket(<<0>> \o RES, NO_JOB, <<>>),
      PeerPacket(<<0>> \o RES, JOB_ASSIGN, <<Handle(s), moose, EmptyKwargs>>),
      PeerPacket(<<0>> \o RES, JOB_ASSIGN, <<Handle(s), failmoose, EmptyKwargs>>),
      PeerPacket(<<0>> \o RES, JOB_ASSIGN, <<Handle(s), ghost, EmptyKwargs>>),
      PeerPacket(<<0>> \o RES, JOB_ASSIGN, <<Handle(s), moose, <<123, 0, 125>>>>),
      PeerPacket(<<0>> \o RES, ERROR, <<<<69>>, <<116>>>>),
      PeerPacket(<<0>> \o REQ, NOOP, <<>>),
      PeerPacket(<<0>> \o RES, 37, <<<<97>>>>),
      PeerPacket(<<0>> \o RES, 5, <<>>),
      PeerPacket(<<0>> \o RES, JOB_CREATED, <<Handle(s)>>),
      PeerPacket(<<0>> \o RES, STATUS_RES,
                 <<Handle(s), <<49>>, <<48>>, <<51>>, <<49, 48>>>>) }]

----------------------------------------------------------------------------
(* The client's methods, and the servers as their environment *)

CouldNotConnect == "GearmanError: Could not connect to any servers"

Nothing == [s \in Servers |-> <<>>]

\* sock.close() for the sockets of `gone`: a closed socket has no receive
\* buffer and no pending condition any more
Discard(f, gone, empty) == [s \in Servers |-> IF s \in gone THEN empty ELSE f[s]]

AllFalse == [s \in Servers |-> FALSE]

Levels == {"LOW_PRIORITY", "NORMAL_PRIORITY", "HIGH_PRIORITY", "other"}

\* the packet types as they would be if LOW_PRIORITY were sent as the
\* foreground SUBMIT_JOB_LOW
SubmitType_low_foreground(lv) ==
    IF lv = "LOW_PRIORITY" THEN SUBMIT_JOB_LOW
    ELSE IF lv = "NORMAL_PRIORITY" THEN SUBMIT_JOB_BG
    ELSE IF lv = "HIGH_PRIORITY" THEN SUBMIT_JOB_HIGH_BG
    ELSE 0

\* lines 208-215: the packet type of a level, 0 when submit_job raises
SubmitType(lv) ==
    IF lv = "LOW_PRIORITY" THEN SUBMIT_JOB_LOW_BG
    ELSE IF lv = "NORMAL_PRIORITY" THEN SUBMIT_JOB_BG
    ELSE IF lv = "HIGH_PRIORITY" THEN SUBMIT_JOB_HIGH_BG
    ELSE 0

Init ==
    /\ ClientIdle
    /\ CodecIdle

\* client.connect(), with the servers of `up` accepting connections
CallConnect(up) ==
    /\ pc = "idle"
    /\ op' = "connect"
    /\ reachable' = up
    /\ attempts' = Connected(up).tried
    /\ exc' = IF Connected(up).exc = "none" THEN "none" ELSE CouldNotConnect
    /\ conn' = Connected(up).sock
    /\ isopen' = IF Connected(up).exc = "none" THEN {Connected(up).sock} ELSE {}
    /\ nopen' = IF Connected(up).exc = "none" THEN 1 ELSE 0
    /\ pc' = IF Connected(up).exc = "none" THEN "returned" ELSE "raised"
    /\ UNCHANGED <<level, shirk, ret, server_sockets, read_ready, errored,
                   inbox, eof, sockerr, wrote, got, nread, polite, peer>>
    /\ UNCHANGED codecVars

\* lines 179-183 of request: connect, then write the packet; the call then
\* waits in read_response
Request(packet_type, args, up) ==
    /\ reachable' = up
    /\ attempts' = Connected(up).tried
    /\ IF Connected(up).exc # "none"
       THEN /\ exc' = CouldNotConnect
            /\ pc' = "raised"
            /\ UNCHANGED <<conn, isopen, wrote, nopen>>
       ELSE /\ conn' = Connected(up).sock
            /\ isopen' = {Connected(up).sock}
            /\ nopen' = nopen + 1
            /\ wrote' = [Nothing EXCEPT ![Connected(up).sock] =
                                            <<Call(packet_type, args)>>]
            /\ pc' = "await"
            /\ UNCHANGED exc
    /\ UNCHANGED <<shirk, ret, server_sockets, read_ready, errored, inbox, eof,
                   sockerr, got, nread, polite, peer>>
    /\ UNCHANGED codecVars

\* client.submit_job(b'm', b'{}', level=lv) up to its read
CallSubmitJob(lv, up) ==
    /\ pc = "idle"
    /\ op' = "submit_job"
    /\ level' = lv
    /\ IF SubmitType(lv) = 0
       THEN /\ exc' = "ValueError"
            /\ pc' = "raised"
            /\ UNCHANGED <<shirk, ret, reachable, attempts, conn,
                           server_sockets, read_ready, errored, isopen, inbox,
                           eof, sockerr, wrote, got, nopen, nread, polite,
                           peer>>
            /\ UNCHANGED codecVars
       ELSE Request(SubmitType(lv), <<moose, <<>>, EmptyKwargs>>, up)

\* client.get_status(b'H1') up to its read
CallGetStatus(up) ==
    /\ pc = "idle"
    /\ op' = "get_status"
    /\ UNCHANGED level
    /\ Request(GET_STATUS, <<Handle(1)>>, up)

\* int(b) of a byte string: the number of a string of ASCII digits, -1 for
\* the ValueError of any other string
RECURSIVE ParseInt(_)
ParseInt(b) ==
    IF Len(b) = 0 \/ \E i \in 1..Len(b) : b[i] < 48 \/ b[i] > 57 THEN -1
    ELSE IF Len(b) = 1 THEN b[1] - 48
    ELSE ParseInt(SubSeq(b, 1, Len(b) - 1)) * 10 + (b[Len(b)] - 48)

\* the packet type the call expects in response
Expect == IF op = "submit_job" THEN JOB_CREATED ELSE STATUS_RES

\* lines 187-194, 218-219 and 234-237: what the call makes of the response
Answer(response_type, args) ==
    IF response_type # Expect
    THEN [exc |-> IF response_type \in packet_name_for_type
                  THEN "GearmanError" ELSE "KeyError",
          ret |-> <<>>]
    ELSE IF op = "submit_job"
    THEN IF Len(args) # 1 THEN [exc |-> "ValueError", ret |-> <<>>]
         ELSE [exc |-> "none", ret |-> args[1]]
    ELSE IF Len(args) # 5 THEN [exc |-> "ValueError", ret |-> <<>>]
    ELSE IF ParseInt(args[4]) < 0 \/ ParseInt(args[5]) < 0
    THEN [exc |-> "ValueError", ret |-> <<>>]
    ELSE [exc |-> "none",
          ret |-> <<args[2] # <<48>>, args[3] # <<48>>,
                    ParseInt(args[4]), ParseInt(args[5])>>]

\* lines 185-194: request reads one response on its blocking socket, leaves
\* the with statement (which closes the socket) and returns or raises
RequestRead(s, arrived) ==
    /\ pc = "await"
    /\ s = conn
    /\ \/ Len(inbox[conn]) >= 12 /\ arrived \in Arrivals(inbox[conn])
       \/ Len(inbox[conn]) < 12 /\ eof[conn] /\ arrived = Len(inbox[conn])
    /\ \E rr \in {read_response(inbox[conn], arrived,
                                 eof[conn] /\ arrived = Len(inbox[conn]))} :
       \E ans \in {Answer(rr.ptype, rr.args)} :
           /\ got' = [sock |-> conn, exc |-> rr.exc, ptype |-> rr.ptype,
                      args |-> rr.args, ran |-> "no"]
           /\ inbox' = [inbox EXCEPT ![conn] =
                            SubSeq(inbox[conn], rr.consumed + 1, Len(inbox[conn]))]
           /\ nread' = nread + 1
           /\ IF rr.exc = "hang"
              THEN /\ pc' = "hung"
                   /\ UNCHANGED <<exc, ret, isopen>>
              ELSE /\ isopen' = isopen \ {conn}
                   /\ IF rr.exc # "none"
                      THEN exc' = rr.exc /\ pc' = "raised" /\ UNCHANGED ret
                      ELSE /\ exc' = ans.exc
                           /\ ret' = ans.ret
                           /\ pc' = IF ans.exc = "none" THEN "returned" ELSE "raised"
    /\ wrote' = Nothing
    /\ UNCHANGED <<op, level, shirk, reachable, attempts, conn, server_sockets,
                   read_ready, errored, eof, sockerr, nopen, polite, peer>>
    /\ UNCHANGED codecVars

\* the handles of `jobs` without the first one that equals `handle`
Without(jobs, handle) ==
    IF \E i \in 1..Len(jobs) : jobs[i] = handle
    THEN LET i == CHOOSE k \in 1..Len(jobs) :
                      /\ jobs[k] = handle
                      /\ \A j \in 1..(k - 1) : jobs[j] # handle
         IN  SubSeq(jobs, 1, i - 1) \o SubSeq(jobs, i + 1, Len(jobs))
    ELSE jobs

\* a polite server's view after it received one packet of the worker
Hear1(v, c) ==
    IF c.ptype = PRE_SLEEP THEN [v EXCEPT !.asleep = TRUE, !.last = c.ptype]
    ELSE IF c.ptype = GRAB_JOB
    THEN [v EXCEPT !.asleep = FALSE, !.grabs = @ + 1,
                   !.early = @ \/ v.jobs # <<>>, !.last = c.ptype]
    ELSE IF c.ptype \in {WORK_COMPLETE, WORK_FAIL} /\ Len(c.args) >= 1
    THEN [v EXCEPT !.jobs = Without(@, c.args[1]), !.last = c.ptype]
    ELSE IF c.ptype = CAN_DO /\ Len(c.args) = 1
    THEN [v EXCEPT !.can = @ \cup {c.args[1]}, !.last = c.ptype]
    ELSE IF c.ptype = CANT_DO /\ Len(c.args) = 1
    THEN [v EXCEPT !.can = @ \ {c.args[1]}, !.last = c.ptype]
    ELSE [v EXCEPT !.last = c.ptype]

\* its view after it received the packets of `out`, in order
RECURSIVE Hear(_, _)
Hear(v, out) ==
    IF out = <<>> THEN v ELSE Hear(Hear1(v, Head(out)), Tail(out))

\* what polite server s may write, given its view: NOOP to a connection
\* that sleeps, and for a GRAB_JOB not yet answered one NO_JOB or one
\* JOB_ASSIGN of a task the connection advertises, with a JSON document
Polite(v, s, packet) ==
    \/ packet = PeerPacket(<<0>> \o RES, NOOP, <<>>) /\ v.asleep
    \/ packet = PeerPacket(<<0>> \o RES, NO_JOB, <<>>) /\ v.grabs > 0
    \/ /\ v.grabs > 0
       /\ \E f \in v.can :
              packet = PeerPacket(<<0>> \o RES, JOB_ASSIGN,
                                  <<Handle(s), f, EmptyKwargs>>)

\* server s's view after it wrote the packet
Sent(v, s, packet) ==
    IF TypeOf(packet) = NOOP THEN [v EXCEPT !.asleep = FALSE]
    ELSE IF TypeOf(packet) = NO_JOB THEN [v EXCEPT !.grabs = @ - 1]
    ELSE [v EXCEPT !.grabs = @ - 1, !.jobs = Append(@, Handle(s))]

\* client.work(shirk=sh) is called, the servers being polite or not
CallWork(sh, po) ==
    /\ pc = "idle"
    /\ op' = "work"
    /\ shirk' = sh
    /\ polite' = po
    /\ pc' = "session"
    /\ UNCHANGED <<level, exc, ret, reachable, attempts, conn, server_sockets,
                   read_ready, errored, isopen, inbox, eof, sockerr, wrote,
                   got, nopen, nread, peer>>
    /\ UNCHANGED codecVars

\* the loops as they would be if the readiness loop were left after one
\* pass, with sockets still active
NextPc_one_pass(sockets, ready) ==
    IF ready # {} THEN "ready" ELSE "session"

\* where the loops of work go on after a step: the next socket of
\* read_ready, else the next select, else (no socket left) the next session
NextPc(sockets, ready) ==
    IF ready # {} THEN "ready"
    ELSE IF sockets # {} THEN "select"
    ELSE "session"

\* the start of a session as it would be if finding no server ended the
\* session only and the outer loop went round again
StartSession_retry(up) ==
    /\ pc = "session"
    /\ reachable' = up
    /\ attempts' = servers
    /\ server_sockets' = up
    /\ isopen' = up
    /\ inbox' = Nothing
    /\ eof' = AllFalse
    /\ sockerr' = AllFalse
    /\ read_ready' = {}
    /\ errored' = {}
    /\ got' = NoGot
    /\ wrote' = [s \in Servers |-> IF s \in up THEN Announce ELSE <<>>]
    /\ peer' = [s \in Servers |->
                  IF polite /\ s \in up THEN Hear(NoView, Announce) ELSE NoView]
    /\ exc' = "none"
    /\ pc' = IF up = {} THEN "session" ELSE "select"
    /\ UNCHANGED <<op, level, shirk, ret, conn, nopen, nread, polite>>
    /\ UNCHANGED codecVars

\* lines 252-270: one pass of the outer loop up to the readiness loop, with
\* the servers of `up` accepting connections
StartSession(up) ==
    /\ pc = "session"
    /\ reachable' = up
    /\ attempts' = servers
    /\ server_sockets' = up
    /\ isopen' = up
    /\ inbox' = Nothing
    /\ eof' = AllFalse
    /\ sockerr' = AllFalse
    /\ read_ready' = {}
    /\ errored' = {}
    /\ got' = NoGot
    /\ wrote' = [s \in Servers |-> IF s \in up THEN Announce ELSE <<>>]
    /\ peer' = [s \in Servers |->
                  IF polite /\ s \in up THEN Hear(NoView, Announce) ELSE NoView]
    /\ exc' = IF up = {} THEN CouldNotConnect ELSE "none"
    /\ pc' = IF up = {} THEN "raised" ELSE "select"
    /\ UNCHANGED <<op, level, shirk, ret, conn, nopen, nread, polite>>
    /\ UNCHANGED codecVars

\* lines 273-283: select returns, and the errored sockets are closed and
\* removed
Select ==
    /\ pc = "select"
    /\ LET ready == {s \in server_sockets : Len(inbox[s]) > 0 \/ eof[s]}
           bad == {s \in server_sockets : sockerr[s]}
       IN  /\ ready \cup bad # {}
           /\ read_ready' = ready
           /\ errored' = bad
           /\ server_sockets' = server_sockets \ bad
           /\ isopen' = isopen \ bad
           /\ inbox' = Discard(inbox, bad, <<>>)
           /\ eof' = Discard(eof, bad, FALSE)
           /\ sockerr' = Discard(sockerr, bad, FALSE)
           /\ peer' = Discard(peer, bad, NoView)
           /\ pc' = NextPc(server_sockets \ bad, ready)
    /\ wrote' = Nothing
    /\ got' = NoGot
    /\ UNCHANGED <<op, level, shirk, exc, ret, reachable, attempts, conn,
                   nopen, nread, polite>>
    /\ UNCHANGED codecVars

\* the interrupt as it would be if work returned without closing
Interrupt_leaves_open ==
    /\ pc = "select"
    /\ pc' = "returned"
    /\ wrote' = Nothing
    /\ got' = NoGot
    /\ UNCHANGED <<op, level, shirk, exc, ret, reachable, attempts, conn,
                   server_sockets, read_ready, errored, isopen, inbox, eof,
                   sockerr, nopen, nread, polite, peer>>
    /\ UNCHANGED codecVars

\* lines 275-278: KeyboardInterrupt during select
Interrupt ==
    /\ pc = "select"
    /\ isopen' = isopen \ server_sockets
    /\ inbox' = Discard(inbox, server_sockets, <<>>)
    /\ eof' = Discard(eof, server_sockets, FALSE)
    /\ sockerr' = Discard(sockerr, server_sockets, FALSE)
    /\ peer' = Discard(peer, server_sockets, NoView)
    /\ pc' = "returned"
    /\ wrote' = Nothing
    /\ got' = NoGot
    /\ UNCHANGED <<op, level, shirk, exc, ret, reachable, attempts, conn,
                   server_sockets, read_ready, errored, nopen, nread, polite>>
    /\ UNCHANGED codecVars

\* the numbers of bytes that may be in the receive buffer of a socket that
\* select reported ready to read.  One buffer stands for each way a packet
\* can be cut: its first byte (a part of the header), its header without
\* any byte of the body, all but its last byte (a part of the body), and
\* all of it
Buffered(stream) ==
    IF Len(stream) = 0 THEN {0}
    ELSE {k \in 1..Len(stream) : k = 1 \/ k = 12 \/ k >= Len(stream) - 1}

\* lines 285-338: one pass of the loop over read_ready, for socket s, with
\* `arrived` bytes in its receive buffer
Dispatch(s, arrived) ==
    /\ pc = "ready"
    /\ s \in read_ready
    /\ arrived \in Buffered(inbox[s])
    /\ polite => arrived = Len(inbox[s])
    /\ read_ready' = read_ready \ {s}
    /\ IF s \notin isopen
       THEN \* recv on a socket object that was closed
            /\ exc' = "OSError"
            /\ pc' = "raised"
            /\ got' = [NoGot EXCEPT !.sock = s, !.exc = "OSError"]
            /\ wrote' = Nothing
            /\ UNCHANGED <<server_sockets, isopen, inbox, eof, sockerr, peer>>
       ELSE \E rr \in {read_response(inbox[s], arrived,
                                      eof[s] /\ arrived = Len(inbox[s]))} :
            \E st \in {IF rr.exc = "none"
                       THEN Dispatched(rr.ptype, rr.args, shirk)
                       ELSE Step(rr.exc, <<>>, FALSE, "no")} :
                /\ got' = [sock |-> s, exc |-> rr.exc, ptype |-> rr.ptype,
                           args |-> rr.args, ran |-> st.ran]
                /\ inbox' = [inbox EXCEPT ![s] =
                                 IF st.drop THEN <<>>
                                 ELSE SubSeq(inbox[s], rr.consumed + 1,
                                             Len(inbox[s]))]
                /\ eof' = IF st.drop THEN Discard(eof, {s}, FALSE) ELSE eof
                /\ sockerr' =
                       IF st.drop THEN Discard(sockerr, {s}, FALSE) ELSE sockerr
                /\ wrote' = [Nothing EXCEPT ![s] = st.out]
                /\ peer' = IF st.drop THEN Discard(peer, {s}, NoView)
                           ELSE IF polite
                           THEN [peer EXCEPT ![s] = Hear(@, st.out)]
                           ELSE peer
                /\ server_sockets' =
                       IF st.drop THEN server_sockets \ {s} ELSE server_sockets
                /\ isopen' = IF st.drop THEN isopen \ {s} ELSE isopen
                /\ exc' = IF st.exc \in {"none", "hang"} THEN "none" ELSE st.exc
                /\ pc' = IF st.exc = "hang" THEN "hung"
                         ELSE IF st.exc # "none" THEN "raised"
                         ELSE NextPc(IF st.drop THEN server_sockets \ {s}
                                     ELSE server_sockets,
                                     read_ready \ {s})
    /\ UNCHANGED <<op, level, shirk, ret, reachable, attempts, conn, errored,
                   nopen, nread, polite>>
    /\ UNCHANGED codecVars

\* the client is inside a call that exchanges packets with servers
Live == pc \in {"select", "await"}

\* server s writes a packet to its connection: a polite server what the
\* worker protocol allows it, any other server any packet of its menu once
\* the client has consumed what it wrote before (up to MaxBacklog bytes).
\* What a polite server writes is delivered whole.
ServerSend(s, packet) ==
    /\ Live
    /\ s \in isopen
    /\ ~eof[s]
    /\ IF polite THEN Polite(peer[s], s, packet)
       ELSE Len(inbox[s]) <= MaxBacklog
    /\ inbox' = [inbox EXCEPT ![s] = inbox[s] \o packet]
    /\ peer' = IF polite THEN [peer EXCEPT ![s] = Sent(@, s, packet)]
               ELSE peer
    /\ wrote' = Nothing
    /\ got' = NoGot
    /\ UNCHANGED <<pc, op, level, shirk, exc, ret, reachable, attempts, conn,
                   server_sockets, read_ready, errored, isopen, eof, sockerr,
                   nopen, nread, polite>>
    /\ UNCHANGED codecVars

\* server s closes its end of the connection, the client having consumed
\* what the server wrote; a polite server keeps its connections
ServerClose(s) ==
    /\ Live
    /\ ~polite
    /\ s \in isopen
    /\ ~eof[s]
    /\ inbox[s] = <<>>
    /\ eof' = [eof EXCEPT ![s] = TRUE]
    /\ wrote' = Nothing
    /\ got' = NoGot
    /\ UNCHANGED <<pc, op, level, shirk, exc, ret, reachable, attempts, conn,
                   server_sockets, read_ready, errored, isopen, inbox, sockerr,
                   nopen, nread, polite, peer>>
    /\ UNCHANGED codecVars

\* an exceptional condition comes up on a socket of the worker (none
\* does on the connections of polite servers)
SocketError(s) ==
    /\ pc = "select"
    /\ ~polite
    /\ s \in server_sockets
    /\ ~sockerr[s]
    /\ sockerr' = [sockerr EXCEPT ![s] = TRUE]
    /\ wrote' = Nothing
    /\ got' = NoGot
    /\ UNCHANGED <<pc, op, level, shirk, exc, ret, reachable, attempts, conn,
                   server_sockets, read_ready, errored, isopen, inbox, eof,
                   nopen, nread, polite, peer>>
    /\ UNCHANGED codecVars

Next ==
    \/ \E up \in SUBSET Servers : CallConnect(up)
    \/ \E lv \in Levels, up \in SUBSET Servers : CallSubmitJob(lv, up)
    \/ \E up \in SUBSET Servers : CallGetStatus(up)
    \/ \E s \in Servers : \E arrived \in 0..Len(inbox[s]) : RequestRead(s, arrived)
    \/ \E sh \in BOOLEAN, po \in BOOLEAN : CallWork(sh, po)
    \/ \E up \in SUBSET Servers : StartSession(up)
    \/ Select
    \/ Interrupt
    \/ \E s \in Servers : \E arrived \in 0..Len(inbox[s]) : Dispatch(s, arrived)
    \/ \E s \in Servers : \E packet \in ServerPackets[s] : ServerSend(s, packet)
    \/ \E s \in Servers : ServerClose(s)
    \/ \E s \in Servers : SocketError(s)

Spec == Init /\ [][Next]_vars

----------------------------------------------------------------------------
(* The claims about the client and the worker, checked under Spec *)

\* the packet types of a sequence of write_request calls
Types(w) == [i \in 1..Len(w) |-> w[i].ptype]

\* how many calls of w are of the packet type t
Count(w, t) == Cardinality({i \in 1..Len(w) : w[i].ptype = t})

\* the latest step of work handled a JOB_ASSIGN whose handler ran
JobHandled == op = "work" /\ got.ran # "no"

\* work goes on: no exception has left it and it has not returned
WorkGoesOn == pc \in {"ready", "select", "session"} /\ exc = "none"

\* C1: a JOB_ASSIGN(handle, task, data) whose registered handler raises
\* makes the worker send, on that connection and on no other, exactly one
\* WORK_EXCEPTION with the handle, then exactly one WORK_FAIL with the
\* handle, then (after a CANT_DO in shirk mode) a GRAB_JOB and nothing
\* else; no WORK_COMPLETE is sent; the connection stays open and active.
C1_HandlerFailureReported ==
    (JobHandled /\ got.ran = "raised") =>
        /\ got.ptype = JOB_ASSIGN
        /\ Types(wrote[got.sock]) =
               IF shirk THEN <<WORK_EXCEPTION, WORK_FAIL, CANT_DO, GRAB_JOB>>
               ELSE <<WORK_EXCEPTION, WORK_FAIL, GRAB_JOB>>
        /\ Len(wrote[got.sock][1].args) = 2
        /\ wrote[got.sock][1].args[1] = got.args[1]
        /\ wrote[got.sock][2].args = <<got.args[1]>>
        /\ \A s \in Servers \ {got.sock} : wrote[s] = <<>>
        /\ got.sock \in server_sockets
        /\ got.sock \in isopen
        /\ WorkGoesOn

\* failmoose was assigned and raised, in shirk mode
C1_Witness ==
    /\ JobHandled /\ got.ran = "raised"
    /\ got.args[2] = failmoose
    /\ shirk
    /\ Count(wrote[got.sock], WORK_FAIL) = 1

\* the latest step of work read a packet with a framing or protocol error:
\* bad magic or unknown type (read_response's GearmanError), or a
\* JOB_ASSIGN whose body does not split into its three arguments
FramingError ==
    /\ op = "work"
    /\ got.sock # 0
    /\ \/ got.exc = "GearmanError"
       \/ got.exc = "none" /\ got.ptype = JOB_ASSIGN /\ Len(got.args) # 3

\* C2: with two or more active connections, a framing or protocol error
\* on one connection closes and removes that connection only: the others
\* stay active, the readiness loop keeps running, work does not end.
C2_FramingErrorIsolated ==
    (FramingError /\ Cardinality(server_sockets \cup {got.sock}) >= 2) =>
        /\ got.sock \notin server_sockets
        /\ got.sock \notin isopen
        /\ server_sockets # {}
        /\ server_sockets \subseteq isopen
        /\ WorkGoesOn

\* C3: a JOB_ASSIGN whose task name is not in the handler table fails that
\* job only: WORK_EXCEPTION then WORK_FAIL are sent for the handle, nothing
\* propagates out of work, the connection stays in service.
C3_UnregisteredTaskReported ==
    (/\ op = "work"
     /\ got.exc = "none" /\ got.ptype = JOB_ASSIGN /\ Len(got.args) = 3
     /\ got.args[2] \notin Registered)
    => /\ WorkGoesOn
       /\ Len(wrote[got.sock]) >= 2
       /\ wrote[got.sock][1].ptype = WORK_EXCEPTION
       /\ wrote[got.sock][1].args[1] = got.args[1]
       /\ wrote[got.sock][2] = Call(WORK_FAIL, <<got.args[1]>>)
       /\ got.sock \in server_sockets

\* a session of work has made its connection attempts
SessionAttempted == op = "work" /\ attempts = servers

\* a session of work has just written its announcements
SessionStarted ==
    /\ op = "work" /\ pc = "select" /\ got = NoGot
    /\ \E s \in Servers : wrote[s] # <<>>

\* the addresses tried are the first ones of the list, each once, in order
InListOrder(tried) ==
    /\ Len(tried) <= Len(servers)
    /\ \A i \in 1..Len(tried) : tried[i] = servers[i]

\* C4: connect tries each address at most once, in list order, and returns
\* a connection to the first reachable one; a session of work starts with
\* exactly the reachable servers active; with no server reachable connect
\* and work both raise 'Could not connect to any servers'.
C4_FirstReachable ==
    /\ (op = "connect" /\ pc # "idle") =>
          /\ InListOrder(attempts)
          /\ IF reachable = {}
             THEN /\ pc = "raised" /\ exc = CouldNotConnect
                  /\ attempts = servers
                  /\ isopen = {}
             ELSE /\ pc = "returned" /\ exc = "none"
                  /\ conn \in reachable
                  /\ attempts[Len(attempts)] = conn
                  /\ \A i \in 1..(Len(attempts) - 1) :
                         attempts[i] \notin reachable
                  /\ isopen = {conn}
    /\ SessionStarted =>
          /\ server_sockets = reachable
          /\ isopen = reachable
          /\ reachable # {}
          /\ attempts = servers
    /\ (SessionAttempted /\ reachable = {}) =>
          pc = "raised" /\ exc = CouldNotConnect

\* the first server refused and connect returned the second
C4_Witness ==
    /\ op = "connect" /\ pc = "returned"
    /\ 1 \notin reachable
    /\ conn = 2
    /\ attempts = <<1, 2>>

C6_ShirkWithdrawsTask ==
    /\ (JobHandled /\ shirk) =>
          LET w == wrote[got.sock]
          IN  /\ Len(w) >= 3
              /\ w[Len(w)] = Call(GRAB_JOB, <<>>)
              /\ w[Len(w) - 1] = Call(CANT_DO, <<got.args[2]>>)
              /\ Count(w, CANT_DO) = 1
              /\ Count(w, GRAB_JOB) = 1
              /\ \A i \in 1..(Len(w) - 2) :
                     w[i].ptype \in {WORK_COMPLETE, WORK_EXCEPTION, WORK_FAIL}
    /\ ~shirk => \A s \in Servers : Count(wrote[s], CANT_DO) = 0

\* moose was assigned and returned, in shirk mode
C6_Witness ==
    /\ JobHandled /\ shirk
    /\ got.ran = "returned"
    /\ Count(wrote[got.sock], CANT_DO) = 1

\* C10: submit_job sends LOW_PRIORITY as SUBMIT_JOB_LOW_BG (34),
\* NORMAL_PRIORITY as SUBMIT_JOB_BG (18) and HIGH_PRIORITY as
\* SUBMIT_JOB_HIGH_BG (32), and for any other level raises before a
\* connection is opened or a byte is written.
C10_PrioritySelectsType ==
    op = "submit_job" =>
        /\ \A s \in Servers : \A i \in 1..Len(wrote[s]) :
               \/ level = "LOW_PRIORITY" /\ wrote[s][i].ptype = 34
               \/ level = "NORMAL_PRIORITY" /\ wrote[s][i].ptype = 18
               \/ level = "HIGH_PRIORITY" /\ wrote[s][i].ptype = 32
        /\ level = "other" =>
               /\ pc = "raised" /\ exc = "ValueError"
               /\ attempts = <<>> /\ nopen = 0 /\ isopen = {} /\ conn = 0
               /\ wrote = Nothing

\* a low-priority job was submitted as SUBMIT_JOB_LOW_BG
C10_Witness ==
    /\ op = "submit_job" /\ level = "LOW_PRIORITY" /\ pc = "await"
    /\ wrote[conn] = <<Call(34, <<moose, <<>>, EmptyKwargs>>)>>

----------------------------------------------------------------------------
(* The claims about the codec, checked under CodecSpec *)

\* no argument but the last holds a separator byte
SeparatorsLast(args) ==
    \A i \in 1..(Len(args) - 1) : FirstNul(args[i]) = 0

\* the packet is of a catalog type and has that type's number of arguments
Conforming(p) ==
    /\ p.ptype \in packet_name_for_type
    /\ Len(p.args) = num_args_for_packet_type[p.ptype]
    /\ SeparatorsLast(p.args)

\* read_response returned the packet that was encoded
ReturnedThePacket ==
    /\ result.exc = "none"
    /\ result.ptype = pkt.ptype
    /\ result.args = pkt.args

\* C7: for every catalog type and every argument list of that type's
\* argument count, separators only in the last argument, read_response
\* applied to the bytes write_request produced returns the same type and
\* the same argument list.  write_request stamps \0REQ and read_response
\* accepts \0RES only, so the statement is made of both streams: the bytes
\* as written, and the same packet as a responder stamps it.
C7_RoundTrip ==
    (/\ cphase = "decoded"
     /\ Conforming(pkt)
     /\ \/ pkt.via = "write_request"
        \/ pkt.via = "peer" /\ pkt.head = <<0>> \o RES)
    => ReturnedThePacket

\* C8: a well-formed response of a catalog type with n >= 1 arguments and
\* a non-empty body, its body delivered whole, decodes to exactly n
\* arguments, the last one the whole remainder with its 0x00 bytes unsplit.
C8_BoundedSplit ==
    (/\ cphase = "decoded"
     /\ pkt.via = "peer" /\ pkt.head = <<0>> \o RES
     /\ Conforming(pkt)
     /\ num_args_for_packet_type[pkt.ptype] >= 1
     /\ Len(Join(pkt.args)) > 0
     /\ delivered = 12 + Len(Join(pkt.args)))
    => /\ result.exc = "none"
       /\ Len(result.args) = num_args_for_packet_type[pkt.ptype]
       /\ result.args = pkt.args

\* C9 as claimed: read_response raises GearmanError for every header whose
\* first four bytes differ from \0RES, and for every header whose type code
\* is not in the catalog, whatever the declared body length.
C9_HeaderValidation ==
    cphase = "decoded" =>
        /\ pkt.head # <<0>> \o RES => result.exc = "GearmanError"
        /\ pkt.ptype \notin packet_name_for_type => result.exc = "GearmanError"

\* C9 as amended: GearmanError for every header whose first four bytes
\* differ from \0RES, and for every \0RES header of a type not in the
\* catalog with a declared body length above zero; a \0RES header with body
\* length zero is returned as (type, ()) whatever its type code.
C9_HeaderValidationAmended ==
    cphase = "decoded" =>
        /\ pkt.head # <<0>> \o RES => result.exc = "GearmanError"
        /\ (/\ pkt.head = <<0>> \o RES
            /\ pkt.ptype \notin packet_name_for_type
            /\ Len(Join(pkt.args)) > 0) => result.exc = "GearmanError"
        /\ (pkt.head = <<0>> \o RES /\ Len(Join(pkt.args)) = 0)
              => /\ result.exc = "none"
                 /\ result.ptype = pkt.ptype
                 /\ result.args = <<>>

\* a header of a type outside the catalog, with a body, was refused
C9_Witness ==
    /\ cphase = "decoded"
    /\ pkt.head = <<0>> \o RES
    /\ pkt.ptype \notin packet_name_for_type
    /\ Len(Join(pkt.args)) > 0
    /\ result.exc = "GearmanError"

----------------------------------------------------------------------------
(* The claims about request and about the run of a worker session, checked *)
(* under Spec                                                              *)

\* a call of submit_job or get_status that went through request
Requested == op \in {"submit_job", "get_status"} /\ attempts # <<>>

\* the call has returned or raised
Left == pc \in {"returned", "raised"}

\* C11: a call of request opens at most one connection, writes exactly one
\* packet, reads at most one response, never retries, and has closed its
\* connection when it returns or raises; a response whose type is not the
\* expected one is surfaced as a GearmanError.
C11_RequestOneShot ==
    Requested =>
        /\ nopen <= 1 /\ nread <= 1
        /\ \A s \in Servers :
               Len(wrote[s]) <= IF pc = "await" /\ s = conn THEN 1 ELSE 0
        /\ Left => /\ isopen = {}
                   /\ wrote = Nothing
                   /\ InListOrder(attempts)
        /\ (Left /\ got.exc = "none" /\ got.ptype # Expect)
              => pc = "raised" /\ exc = "GearmanError"

\* the active set of a session that had connections has become empty:
\* every socket of the session was closed and removed
Emptied ==
    /\ op = "work" /\ attempts = servers
    /\ reachable # {} /\ server_sockets = {}

\* C12: whenever the active set becomes empty because every connection was
\* closed on error, the worker goes on to a new session: work does not
\* end, it connects to every configured server again, and on each new
\* connection it sends CAN_DO for every registered task and then PRE_SLEEP
\* before it reads any packet.
C12_EmptiedSetRestarts ==
    /\ Emptied => WorkGoesOn
    /\ SessionStarted =>
          /\ attempts = servers
          /\ \A s \in Servers :
                 wrote[s] = IF s \in server_sockets THEN Announce ELSE <<>>

\* C13: against servers that send NOOP only to a connection that sleeps
\* and answer each GRAB_JOB with one NO_JOB or JOB_ASSIGN, every connection
\* of work has at most one job assigned and not yet reported by
\* WORK_COMPLETE or WORK_FAIL, and no GRAB_JOB is sent on a connection
\* while such a job is unreported.
C13_OneJobInFlight ==
    (op = "work" /\ polite) =>
        \A s \in Servers : Len(peer[s].jobs) <= 1 /\ ~peer[s].early

\* a job was assigned, reported and followed by a GRAB_JOB, which the
\* server has not answered yet
C13_Witness ==
    /\ op = "work" /\ polite
    /\ JobHandled
    /\ peer[got.sock].jobs = <<>>
    /\ peer[got.sock].grabs = 1

\* C14: in an iteration of the readiness loop every socket that select
\* reported errored is closed and removed from the active set and is not
\* touched again: nothing is read from it and nothing is written to it,
\* also when select reported it ready to read as well.
C14_ErroredLeftAlone ==
    op = "work" =>
        \A s \in errored :
            /\ s \notin server_sockets
            /\ s \notin isopen
            /\ got.sock # s
            /\ wrote[s] = <<>>

\* the latest step of work read from a socket whose server had closed its
\* end: every recv on it returned no byte
ReadClosedEnd ==
    /\ op = "work" /\ got.sock # 0 /\ got.exc # "OSError"
    /\ eof[got.sock] \/ got.exc = "hang"

\* C15: when a server closes its end of a connection, the decode of that
\* connection terminates, the worker drops the connection and goes on with
\* the others (or with a new session); it is never stuck in read_response.
C15_ClosedEndDropped ==
    /\ op = "work" => pc # "hung"
    /\ ReadClosedEnd =>
          /\ WorkGoesOn
          /\ got.sock \notin server_sockets
          /\ got.sock \notin isopen

\* C17: the packets work sends on a connection follow the connection's
\* state machine: a new connection gets CAN_DO for every registered task
\* and then one PRE_SLEEP; afterwards GRAB_JOB is sent only as the answer
\* to a NOOP or right after the report of a JOB_ASSIGN, PRE_SLEEP only as
\* the answer to a NO_JOB, result packets only for a JOB_ASSIGN; nothing is
\* sent on a connection that was closed.
C17_ConnectionStateMachine ==
    op = "work" =>
        \A s \in Servers :
            LET w == wrote[s]
            IN  w # <<>> =>
                  /\ s \in isopen /\ s \in server_sockets
                  /\ IF got = NoGot THEN w = Announce
                     ELSE /\ got.sock = s /\ got.exc = "none"
                          /\ \A i \in 1..Len(w) :
                                /\ w[i].ptype = GRAB_JOB =>
                                      /\ i = Len(w)
                                      /\ \/ got.ptype = NOOP /\ Len(w) = 1
                                         \/ /\ got.ptype = JOB_ASSIGN
                                            /\ \E j \in 1..(i - 1) :
                                                  w[j].ptype \in
                                                    {WORK_COMPLETE, WORK_FAIL}
                                /\ w[i].ptype = PRE_SLEEP =>
                                      got.ptype = NO_JOB /\ i = Len(w)
                                /\ w[i].ptype \in {WORK_COMPLETE, WORK_FAIL,
                                                    WORK_EXCEPTION} =>
                                      got.ptype = JOB_ASSIGN
                                /\ w[i].ptype \in
                                      {CAN_DO, CANT_DO, PRE_SLEEP, GRAB_JOB,
                                       WORK_COMPLETE, WORK_FAIL, WORK_EXCEPTION}

\* a NOOP was answered by a GRAB_JOB
C17_Witness ==
    /\ op = "work"
    /\ got.exc = "none" /\ got.ptype = NOOP
    /\ wrote[got.sock] = <<Call(GRAB_JOB, <<>>)>>

\* the task names of the packets of type t in a sequence of calls
Named(w, t) == {w[i].args[1] : i \in {k \in 1..Len(w) : w[k].ptype = t}}

\* C18: in shirk mode the set of tasks advertised on a connection (named
\* by CAN_DO and not withdrawn by CANT_DO since) shrinks only by the task
\* of the job just handled and is restored only on NO_JOB, by CAN_DO for
\* every registered task before the PRE_SLEEP; so a connection whose last
\* packet sent is PRE_SLEEP advertises every registered task.  Without
\* shirk, NO_JOB is answered by PRE_SLEEP alone.
C18_AdvertisedSet ==
    op = "work" =>
        /\ \A s \in Servers :
               /\ peer[s].can \subseteq Registered
               /\ peer[s].last = PRE_SLEEP => peer[s].can = Registered
               /\ Named(wrote[s], CANT_DO) # {} =>
                      /\ shirk /\ JobHandled /\ got.sock = s
                      /\ Named(wrote[s], CANT_DO) = {got.args[2]}
               /\ (Named(wrote[s], CAN_DO) # {} /\ got # NoGot) =>
                      /\ shirk /\ got.sock = s /\ got.ptype = NO_JOB
                      /\ wrote[s] = CanDoAll \o <<Call(PRE_SLEEP, <<>>)>>
        /\ (got.exc = "none" /\ got.ptype = NO_JOB) =>
               wrote[got.sock] =
                   IF shirk THEN CanDoAll \o <<Call(PRE_SLEEP, <<>>)>>
                   ELSE <<Call(PRE_SLEEP, <<>>)>>

\* in shirk mode a connection went back to sleep on NO_JOB, every task
\* announced again
C18_Witness ==
    /\ op = "work" /\ shirk /\ polite
    /\ got.exc = "none" /\ got.ptype = NO_JOB
    /\ wrote[got.sock] = CanDoAll \o <<Call(PRE_SLEEP, <<>>)>>
    /\ peer[got.sock].last = PRE_SLEEP
    /\ peer[got.sock].can = Registered

\* C19: when KeyboardInterrupt arrives during the readiness wait, every
\* socket of the active set is closed before work returns to its caller,
\* and no packet is read or written after the signal.
C19_InterruptClosesAll ==
    (op = "work" /\ pc = "returned") =>
        /\ server_sockets # {}
        /\ server_sockets \cap isopen = {}
        /\ isopen = {}
        /\ exc = "none"
        /\ got = NoGot
        /\ wrote = Nothing

\* work was interrupted with two connections active
C19_Witness ==
    /\ op = "work" /\ pc = "returned"
    /\ Cardinality(server_sockets) = 2

\* C20: within a session of work the active set never gains a member:
\* connections are opened at the start of a session only, a connection
\* that was dropped is not opened again while another one is active, and
\* a session starts only when the active set is empty.
C20_ActiveSetNeverGains ==
    [][op = "work" =>
         \/ /\ server_sockets' \subseteq server_sockets
            /\ isopen' \subseteq isopen
         \/ /\ pc = "session"
            /\ server_sockets = {} /\ isopen = {}]_vars

\* one connection of a session of two was dropped, the other is active
C20_Witness ==
    /\ op = "work" /\ pc = "select"
    /\ reachable = Servers
    /\ Cardinality(server_sockets) = NumServers - 1
    /\ isopen = server_sockets

----------------------------------------------------------------------------
(* A further claim about the codec, checked under CodecSpec *)

\* C16: read_response, on a stream of well-formed response packets that
\* the transport delivers in fragments of any sizes, consumes exactly 12
\* bytes plus the declared body length and returns the arguments of the
\* whole body, which leaves the stream at the header of the next packet.
C16_WholePacketConsumed ==
    (/\ cphase = "decoded"
     /\ pkt.via = "peer" /\ pkt.head = <<0>> \o RES
     /\ Conforming(pkt))
    => /\ result.exc = "none"
       /\ result.consumed = 12 + Len(Join(pkt.args))
       /\ wire = <<>>
       /\ Len(Join(pkt.args)) > 0 => Join(result.args) = Join(pkt.args)

====
